---- MODULE Spec2Model ----
(***************************************************************************)
(* Arithmetic progression sum circuit (src/src/lib.rs).                    *)
(*                                                                         *)
(* One proof-construction attempt of ApSumCircuit<STEP, COUNT>: the        *)
(* constraint system is configured, the instance column is loaded, the     *)
(* region closure of ApSumChip::assign runs statement by statement, the    *)
(* final sum cell is bound to instance row 1, and synthesize returns.      *)
(* Field elements are integers modulo FieldModulus.  A halo2 Value is a    *)
(* sequence: <<x>> is Value::known(x), << >> is Value::unknown().          *)
(***************************************************************************)
EXTENDS Integers, Sequences, FiniteSets, TLC

\* Bounds of the model.
FieldModulus == 3
MaxStep == 3
MaxCount == 4
MaxRows == 5
MaxInstLen == 3

VARIABLES STEP, COUNT, usable_rows, mode, instance,
          pc, row, equality, advice, selector, copies,
          a_cell, sum_cell, new_a_val, order, err

params == <<STEP, COUNT, usable_rows, mode, instance>>
vars == <<STEP, COUNT, usable_rows, mode, instance,
          pc, row, equality, advice, selector, copies,
          a_cell, sum_cell, new_a_val, order, err>>

Field == 0 .. (FieldModulus - 1)

\* F::from_u128
from_u128(n) == n % FieldModulus

Known(x) == <<x>>
Unknown == << >>

\* The local variables a_cell / sum_cell before their first assignment.
NoCell == [column |-> "none", row |-> 0 - 1, value |-> Unknown]

\* The instance column as the prover sees it: the supplied vector, padded
\* with zeros (row r is zero-based).
InstanceAt(r) == IF r < Len(instance) THEN instance[r + 1] ELSE 0

\* cs.query_instance(column, row): the prover knows the instance, key
\* generation does not.
query_instance(r) == IF mode = "mock" THEN Known(InstanceAt(r)) ELSE Unknown

\* Variant of NewA: the step is not added.
NewANoStep(a) ==
    IF a = Unknown THEN Unknown
    ELSE Known(a[1] % FieldModulus)

\* Variant of NewA: an unknown previous term is replaced by zero.
NewAUnwrap(a) ==
    Known(((IF a = Unknown THEN 0 ELSE a[1]) + from_u128(STEP)) % FieldModulus)

\* a_cell.value().and_then(|a| Value::known(*a + F::from_u128(STEP)))
NewA(a) ==
    IF a = Unknown THEN Unknown
    ELSE Known((a[1] + from_u128(STEP)) % FieldModulus)

\* Variant of NewSum: the previous term is added instead of the new one.
NewSumStale(sum, new_a) ==
    IF sum = Unknown THEN Unknown
    ELSE IF new_a = Unknown THEN Unknown
    ELSE Known((new_a[1] - from_u128(STEP) + sum[1]) % FieldModulus)

\* sum_cell.value().and_then(|sum| new_a_val.map(|new_a| new_a + sum))
NewSum(sum, new_a) ==
    IF sum = Unknown THEN Unknown
    ELSE IF new_a = Unknown THEN Unknown
    ELSE Known((new_a[1] + sum[1]) % FieldModulus)

\* Variant of LoopRows: the range includes COUNT.
LoopRowsInclusive == 1 .. COUNT

\* Variant of LoopRows: the range starts at row 0.
LoopRowsFromZero == 0 .. (COUNT - 1)

\* for row in 1..COUNT
LoopRows == 1 .. (COUNT - 1)

\* region.assign_advice succeeds: the prover needs a usable row and a known
\* value, key generation ignores advice assignments.
AssignOk(r, v) == mode = "keygen" \/ (r < usable_rows /\ v # Unknown)

AssignErr(r, v) ==
    IF r >= usable_rows THEN "NotEnoughRowsAvailable" ELSE "Synthesis"

\* cs.copy(column, row, instance, inst_row) succeeds
CopyOk(col, r, inst_row) ==
    /\ r < usable_rows
    /\ inst_row < usable_rows
    /\ col \in equality
    /\ "instance" \in equality

CopyErr(col, r, inst_row) ==
    IF r >= usable_rows \/ inst_row >= usable_rows
    THEN "NotEnoughRowsAvailable" ELSE "ColumnNotInPermutation"

Init ==
    /\ STEP \in 0 .. MaxStep
    /\ COUNT \in 1 .. MaxCount
    /\ usable_rows \in 1 .. MaxRows
    /\ mode \in {"mock", "keygen"}
    /\ instance \in UNION {[1 .. n -> Field] : n \in 0 .. MaxInstLen}
    /\ (mode = "keygen" => instance = << >>)
    /\ pc = "unconfigured"
    /\ row = 0
    /\ equality = {}
    /\ advice = << >>
    /\ selector = {}
    /\ copies = {}
    /\ a_cell = NoCell
    /\ sum_cell = NoCell
    /\ new_a_val = Unknown
    /\ order = << >>
    /\ err = "none"

\* ApSumCircuit::configure / ApSumChip::configure
Configure ==
    /\ pc = "unconfigured"
    /\ equality' = {"a", "sum", "instance"}
    /\ pc' = "configured"
    /\ UNCHANGED <<params, row, advice, selector, copies,
                   a_cell, sum_cell, new_a_val, order, err>>

\* Variant of LoadInstance: a vector of length other than 2 is refused.
LoadInstanceStrict ==
    /\ pc = "configured"
    /\ IF mode = "mock" /\ (Len(instance) > usable_rows \/ Len(instance) # 2)
       THEN pc' = "failed" /\ err' = "InstanceTooLarge"
       ELSE pc' = "seed_a" /\ err' = err
    /\ UNCHANGED <<params, row, equality, advice, selector, copies,
                   a_cell, sum_cell, new_a_val, order>>

\* The prover takes the public-input vector and pads it to the trace height.
LoadInstance ==
    /\ pc = "configured"
    /\ IF mode = "mock" /\ Len(instance) > usable_rows
       THEN pc' = "failed" /\ err' = "InstanceTooLarge"
       ELSE pc' = "seed_a" /\ err' = err
    /\ UNCHANGED <<params, row, equality, advice, selector, copies,
                   a_cell, sum_cell, new_a_val, order>>

\* let mut a_cell = region.assign_advice_from_instance(.., instance, 0, a_column, 0)?
SeedA ==
    /\ pc = "seed_a"
    /\ LET v == query_instance(0) IN
       IF ~ (0 < usable_rows)
       THEN /\ pc' = "failed" /\ err' = "NotEnoughRowsAvailable"
            /\ UNCHANGED <<advice, copies, a_cell, order>>
       ELSE IF ~ AssignOk(0, v)
       THEN /\ pc' = "failed" /\ err' = AssignErr(0, v)
            /\ UNCHANGED <<advice, copies, a_cell, order>>
       ELSE IF ~ CopyOk("a", 0, 0)
       THEN /\ pc' = "failed" /\ err' = CopyErr("a", 0, 0)
            /\ advice' = (<<"a", 0>> :> v) @@ advice
            /\ order' = Append(order, <<"a", 0>>)
            /\ UNCHANGED <<copies, a_cell>>
       ELSE /\ pc' = "seed_sum" /\ err' = err
            /\ advice' = (<<"a", 0>> :> v) @@ advice
            /\ order' = Append(order, <<"a", 0>>)
            /\ copies' = copies \cup {<<"a", 0, 0>>}
            /\ a_cell' = [column |-> "a", row |-> 0, value |-> v]
    /\ UNCHANGED <<params, row, equality, selector, sum_cell, new_a_val>>

\* Variant of AfterRow: the loop stops one row early.
AfterRowShort(r) == IF r + 2 \in LoopRows THEN "enable" ELSE "expose"

\* Where the region closure goes after the statements of row r: the next
\* iteration of the loop, or Ok(sum_cell) and on to expose_public.
AfterRow(r) == IF r + 1 \in LoopRows THEN "enable" ELSE "expose"

\* The first row of the loop, and where the closure goes after row 0 is seeded.
LoopFirst == CHOOSE r \in LoopRows : \A q \in LoopRows : r <= q

AfterSeed == IF LoopRows = {} THEN "expose" ELSE "enable"

\* let mut sum_cell = region.assign_advice_from_instance(.., instance, 0, sum_column, 0)?
SeedSum ==
    /\ pc = "seed_sum"
    /\ LET v == query_instance(0) IN
       IF ~ (0 < usable_rows)
       THEN /\ pc' = "failed" /\ err' = "NotEnoughRowsAvailable"
            /\ UNCHANGED <<advice, copies, sum_cell, order, row>>
       ELSE IF ~ AssignOk(0, v)
       THEN /\ pc' = "failed" /\ err' = AssignErr(0, v)
            /\ UNCHANGED <<advice, copies, sum_cell, order, row>>
       ELSE IF ~ CopyOk("sum", 0, 0)
       THEN /\ pc' = "failed" /\ err' = CopyErr("sum", 0, 0)
            /\ advice' = (<<"sum", 0>> :> v) @@ advice
            /\ order' = Append(order, <<"sum", 0>>)
            /\ UNCHANGED <<copies, sum_cell, row>>
       ELSE /\ pc' = AfterSeed /\ err' = err
            /\ advice' = (<<"sum", 0>> :> v) @@ advice
            /\ order' = Append(order, <<"sum", 0>>)
            /\ copies' = copies \cup {<<"sum", 0, 0>>}
            /\ sum_cell' = [column |-> "sum", row |-> 0, value |-> v]
            /\ row' = IF AfterSeed = "enable" THEN LoopFirst ELSE row
    /\ UNCHANGED <<params, equality, selector, a_cell, new_a_val>>

\* Variant of EnableSelector: a failure leaves the loop instead of returning.
EnableSelectorBreak ==
    /\ pc = "enable"
    /\ IF row < usable_rows
       THEN /\ selector' = selector \cup {row}
            /\ pc' = "assign_a" /\ err' = err
       ELSE /\ pc' = "expose" /\ err' = "NotEnoughRowsAvailable"
            /\ UNCHANGED selector
    /\ UNCHANGED <<params, row, equality, advice, copies,
                   a_cell, sum_cell, new_a_val, order>>

\* self.config.selector.enable(&mut region, row)?
EnableSelector ==
    /\ pc = "enable"
    /\ IF row < usable_rows
       THEN /\ selector' = selector \cup {row}
            /\ pc' = "assign_a" /\ err' = err
       ELSE /\ pc' = "failed" /\ err' = "NotEnoughRowsAvailable"
            /\ UNCHANGED selector
    /\ UNCHANGED <<params, row, equality, advice, copies,
                   a_cell, sum_cell, new_a_val, order>>

\* let new_a_val = ..; a_cell = region.assign_advice(|| "a", a_column, row, || new_a_val)?
AssignA ==
    /\ pc = "assign_a"
    /\ LET v == NewA(a_cell.value) IN
       /\ new_a_val' = v
       /\ IF AssignOk(row, v)
          THEN /\ advice' = (<<"a", row>> :> v) @@ advice
               /\ order' = Append(order, <<"a", row>>)
               /\ a_cell' = [column |-> "a", row |-> row, value |-> v]
               /\ pc' = "assign_sum" /\ err' = err
          ELSE /\ pc' = "failed" /\ err' = AssignErr(row, v)
               /\ UNCHANGED <<advice, order, a_cell>>
    /\ UNCHANGED <<params, row, equality, selector, copies, sum_cell>>

\* let new_sum = ..; sum_cell = region.assign_advice(|| "sum", sum_column, row, || new_sum)?
AssignSum ==
    /\ pc = "assign_sum"
    /\ LET v == NewSum(sum_cell.value, new_a_val) IN
       IF AssignOk(row, v)
       THEN /\ advice' = (<<"sum", row>> :> v) @@ advice
            /\ order' = Append(order, <<"sum", row>>)
            /\ sum_cell' = [column |-> "sum", row |-> row, value |-> v]
            /\ pc' = AfterRow(row) /\ err' = err
            /\ row' = IF AfterRow(row) = "enable" THEN row + 1 ELSE row
       ELSE /\ pc' = "failed" /\ err' = AssignErr(row, v)
            /\ UNCHANGED <<advice, order, sum_cell, row>>
    /\ UNCHANGED <<params, equality, selector, copies, a_cell, new_a_val>>

\* chip.expose_public(.., &sum_cell, 1)?
ExposePublic ==
    /\ pc = "expose"
    /\ IF CopyOk(sum_cell.column, sum_cell.row, 1)
       THEN /\ copies' = copies \cup {<<sum_cell.column, sum_cell.row, 1>>}
            /\ pc' = "bound" /\ err' = err
       ELSE /\ pc' = "failed"
            /\ err' = CopyErr(sum_cell.column, sum_cell.row, 1)
            /\ UNCHANGED copies
    /\ UNCHANGED <<params, row, equality, advice, selector,
                   a_cell, sum_cell, new_a_val, order>>

\* Ok(()) at the end of synthesize
Finish ==
    /\ pc = "bound"
    /\ pc' = "ready"
    /\ UNCHANGED <<params, row, equality, advice, selector, copies,
                   a_cell, sum_cell, new_a_val, order, err>>

Next ==
    \/ Configure
    \/ LoadInstance
    \/ SeedA
    \/ SeedSum
    \/ EnableSelector
    \/ AssignA
    \/ AssignSum
    \/ ExposePublic
    \/ Finish

Spec == Init /\ [][Next]_vars

(***************************************************************************)
(* The constraint system and its check.                                    *)
(***************************************************************************)

\* query_selector: 1 on the rows where the selector is enabled, else 0.
SelectorAt(r) == IF r \in selector THEN 1 ELSE 0

\* Variant of StepAndSum: the running-sum polynomial is missing.
StepAndSumNoSum(s, a, sum, prev_a, prev_sum) ==
    << 0,
       (s * ((a - prev_a - from_u128(STEP)) % FieldModulus)) % FieldModulus >>

\* The two polynomials of the gate "step and sum" at one row:
\*   s * (a + prev_sum - sum)   and   s * (a - prev_a - STEP).
StepAndSum(s, a, sum, prev_a, prev_sum) ==
    << (s * ((a + prev_sum - sum) % FieldModulus)) % FieldModulus,
       (s * ((a - prev_a - from_u128(STEP)) % FieldModulus)) % FieldModulus >>

Assigned(col, r) == <<col, r>> \in DOMAIN advice /\ advice[<<col, r>>] # Unknown

\* The value the checker reads from a cell; an unassigned cell reads zero.
CellValue(col, r) == IF Assigned(col, r) THEN advice[<<col, r>>][1] ELSE 0

\* Both polynomials vanish at row r of the produced trace.  Rotation::prev
\* of row 0 leaves the usable rows (poisoned cells): zero times poison is
\* zero, anything else is a failure.  An enabled row needs its cells assigned.
GateSatisfiedAt(r) ==
    IF r = 0 THEN SelectorAt(0) = 0
    ELSE /\ StepAndSum(SelectorAt(r), CellValue("a", r), CellValue("sum", r),
                       CellValue("a", r - 1), CellValue("sum", r - 1)) = <<0, 0>>
         /\ (r \in selector =>
                /\ Assigned("a", r) /\ Assigned("sum", r)
                /\ Assigned("a", r - 1) /\ Assigned("sum", r - 1))

\* MockProver::verify on the produced trace (assert_satisfied passes).
verify ==
    /\ mode = "mock"
    /\ \A r \in 0 .. (usable_rows - 1) : GateSatisfiedAt(r)
    /\ \A c \in copies : CellValue(c[1], c[2]) = InstanceAt(c[3])

\* The copy constraints on the cells of row r hold for the values a, sum.
CopiesHold(r, a, sum) ==
    \A c \in copies :
        c[2] = r => (IF c[1] = "a" THEN a ELSE sum) = InstanceAt(c[3])

\* Some assignment of the cells of rows r .. usable_rows-1 satisfies the
\* gate and the copy constraints, given the values of row r-1.
RECURSIVE SatFrom(_, _, _)
SatFrom(r, prev_a, prev_sum) ==
    IF r >= usable_rows THEN TRUE
    ELSE \E a \in Field, sum \in Field :
            /\ IF r = 0 THEN SelectorAt(0) = 0
               ELSE StepAndSum(SelectorAt(r), a, sum, prev_a, prev_sum) = <<0, 0>>
            /\ CopiesHold(r, a, sum)
            /\ SatFrom(r + 1, a, sum)

\* The circuit (selector column, copy constraints, instance column) has a
\* satisfying assignment of its advice cells.
Satisfiable == SatFrom(0, 0, 0)

\* first + (first + step) + ... + (first + (count-1)*step) in the field
RECURSIVE ProgressionSum(_, _, _)
ProgressionSum(first, step, count) ==
    IF count = 0 THEN 0
    ELSE (ProgressionSum(first, step, count - 1)
          + first + (count - 1) * step) % FieldModulus

\* count * first + step * count * (count-1) / 2 in the field
ClosedForm(first, step, count) ==
    (count * first + step * ((count * (count - 1)) \div 2)) % FieldModulus

AssignDone == pc \in {"expose", "bound", "ready"}

AllCells == {"a", "sum"} \X (0 .. (COUNT - 1))

\* Enough usable rows for the whole attempt: the instance vector fits, every
\* row 0 .. COUNT-1 is usable, and so is instance row 1.
EnoughRows ==
    /\ Len(instance) <= usable_rows
    /\ COUNT <= usable_rows
    /\ 2 <= usable_rows

(***************************************************************************)
(* Properties.                                                             *)
(***************************************************************************)

\* C1: once assign has completed with a known first term, the sum cell it
\* returns is the cell of row COUNT-1 of the sum column and holds
\* COUNT * first_term + STEP * COUNT * (COUNT-1) / 2, which is the sum
\* first_term + (first_term + STEP) + ... + (first_term + (COUNT-1) * STEP),
\* as a field element.
C1_FinalSum ==
    (mode = "mock" /\ AssignDone) =>
        /\ sum_cell = [column |-> "sum", row |-> COUNT - 1,
                       value |-> Known(ClosedForm(InstanceAt(0), STEP, COUNT))]
        /\ <<"sum", COUNT - 1>> \in DOMAIN advice
        /\ advice[<<"sum", COUNT - 1>>] = sum_cell.value
        /\ ClosedForm(InstanceAt(0), STEP, COUNT)
             = ProgressionSum(InstanceAt(0), STEP, COUNT)

\* C1 witness: assign has just returned for a progression of at least three
\* terms with a non-zero step whose integer sum wraps around the modulus.
C1_Witness ==
    /\ mode = "mock" /\ pc = "expose"
    /\ COUNT >= 3 /\ from_u128(STEP) # 0
    /\ COUNT * InstanceAt(0) + STEP * ((COUNT * (COUNT - 1)) \div 2) >= FieldModulus
    /\ sum_cell.value = Known(ClosedForm(InstanceAt(0), STEP, COUNT))

\* C2: when synthesis has completed and instance slot 1 differs from the true
\* progression sum for (instance slot 0, STEP, COUNT), no assignment of the
\* advice cells satisfies the gate and the copy constraints together, and the
\* trace produced by assign fails the check.
C2_Rejection ==
    (mode = "mock" /\ pc = "ready"
       /\ InstanceAt(1) # ProgressionSum(InstanceAt(0), STEP, COUNT)) =>
        /\ ~ Satisfiable
        /\ ~ verify

\* C2 witness: a completed synthesis of at least two rows with a wrong
\* claimed sum, rejected.
C2_Witness ==
    /\ mode = "mock" /\ pc = "ready" /\ COUNT >= 2 /\ Len(instance) = 2
    /\ instance[2] # ProgressionSum(instance[1], STEP, COUNT)
    /\ ~ Satisfiable /\ ~ verify

\* C3: with the public input [first_term, true progression sum] and a trace
\* with enough usable rows, synthesis never fails, and once it has completed
\* the produced trace satisfies every gate and copy constraint.
C3_Acceptance ==
    (mode = "mock" /\ Len(instance) = 2 /\ EnoughRows
       /\ instance[2] = ProgressionSum(instance[1], STEP, COUNT)) =>
        /\ pc # "failed"
        /\ (pc = "ready" => verify /\ Satisfiable)

\* C3 witness: the scenario step 3, count 4, first term 1, sum 22 is accepted.
C3_Witness ==
    /\ mode = "mock" /\ pc = "ready"
    /\ STEP = 3 /\ COUNT = 4 /\ instance = <<1, 22 % FieldModulus>>
    /\ verify

C5_RowZeroExempt ==
    /\ 0 \notin selector
    /\ selector \subseteq 1 .. (COUNT - 1)
    /\ (AssignDone => selector = 1 .. (COUNT - 1))
    /\ GateSatisfiedAt(0)
    /\ (pc = "expose" =>
           \A a \in Field, sum \in Field, prev_a \in Field, prev_sum \in Field :
              StepAndSum(SelectorAt(0), a, sum, prev_a, prev_sum) = <<0, 0>>)

\* C5 witness: assign has completed with the selector on rows 1 .. COUNT-1
\* of a trace of at least three rows.
C5_Witness ==
    /\ pc = "expose" /\ COUNT >= 3
    /\ selector = 1 .. (COUNT - 1)
    /\ <<"a", 0>> \in DOMAIN advice

\* C7: at every point of assign with a known first term, the cells of row 0
\* hold the first term, and every assigned cell of a row r >= 1 satisfies
\* a_r = a_{r-1} + STEP and sum_r = a_r + sum_{r-1} over the cells assigned
\* at rows r-1 and r.
C7_TraceInvariant ==
    mode = "mock" =>
        \A pos \in DOMAIN advice :
            LET r == pos[2] IN
            IF r = 0 THEN advice[pos] = Known(InstanceAt(0))
            ELSE IF pos[1] = "a"
            THEN /\ Assigned("a", r - 1)
                 /\ advice[pos] = Known((advice[<<"a", r - 1>>][1] + from_u128(STEP))
                                          % FieldModulus)
            ELSE /\ Assigned("a", r) /\ Assigned("sum", r - 1)
                 /\ advice[pos] = Known((advice[<<"a", r>>][1]
                                          + advice[<<"sum", r - 1>>][1])
                                          % FieldModulus)

\* C7 witness: in the middle of the loop, a_r of a row r >= 2 is assigned
\* and sum_r is not yet.
C7_Witness ==
    /\ mode = "mock" /\ pc = "assign_sum" /\ row >= 2
    /\ from_u128(STEP) # 0
    /\ <<"a", row>> \in DOMAIN advice
    /\ <<"sum", row>> \notin DOMAIN advice

\* The i-th cell assigned by a proof attempt.
NthCell(i) == <<IF i % 2 = 1 THEN "a" ELSE "sum", (i - 1) \div 2>>

C8_OrderInv ==
    /\ \A i \in 1 .. Len(order) : order[i] = NthCell(i)
    /\ DOMAIN advice = {order[i] : i \in 1 .. Len(order)}
    /\ Len(order) <= 2 * COUNT
    /\ (pc \in {"bound", "ready"} =>
           /\ Len(order) = 2 * COUNT
           /\ <<"sum", COUNT - 1, 1>> \in copies)
    /\ \A c \in copies :
           c[3] = 1 => /\ pc \in {"bound", "ready"}
                       /\ c = <<"sum", COUNT - 1, 1>>
                       /\ <<"sum", COUNT - 1>> \in DOMAIN advice

C8_NoAssignAfterBound ==
    [][(pc \in {"bound", "ready"}) => (advice' = advice /\ order' = order)]_vars

\* C8: cells are assigned in the order a_0, sum_0, a_1, sum_1, ..., each
\* (column, row) once and rows in increasing order; the copy constraint to
\* instance slot 1 exists only in Bound or later, only after row COUNT-1 has
\* been assigned, and is on that row's sum cell; no cell is assigned or
\* re-assigned after Bound.
C8_Ordering == [] C8_OrderInv /\ C8_NoAssignAfterBound

\* C8 witness: Bound is reached after 2 * COUNT assignments, COUNT >= 3.
C8_Witness ==
    /\ pc = "bound" /\ COUNT >= 3 /\ Len(order) = 2 * COUNT
    /\ <<"sum", COUNT - 1, 1>> \in copies

C9_FailedInv ==
    /\ (err # "none") <=> (pc = "failed")
    /\ (pc = "failed" =>
           /\ \A c \in copies : c[3] # 1
           /\ \A pos \in DOMAIN advice : pos[2] <= row /\ pos[2] < usable_rows
           /\ selector \subseteq 1 .. row
           /\ Len(order) <= 2 * (row + 1))

C9_NothingAfterFailure ==
    [][(pc = "failed") => (UNCHANGED vars)]_vars

C9_ErrorFree ==
    [][(pc' \in {"bound", "ready"}) => (err = "none" /\ err' = "none")]_vars

\* C9: an error is recorded exactly when the attempt has failed; a failed
\* attempt has assigned no row beyond the one that failed, has not bound the
\* sum cell to instance slot 1, takes no further step (nothing is retried),
\* and Bound / Ready are reached only by attempts without an error.
C9_FailureAborts == [] C9_FailedInv /\ C9_NothingAfterFailure /\ C9_ErrorFree

\* C9 witness: the attempt failed inside the loop, at a row the trace does
\* not provide, after at least one derived row had been assigned.
C9_Witness ==
    /\ pc = "failed" /\ err = "NotEnoughRowsAvailable"
    /\ row = usable_rows /\ row >= 2 /\ row < COUNT
    /\ <<"sum", row - 1>> \in DOMAIN advice
    /\ <<"a", row>> \notin DOMAIN advice

\* C10: an unknown value is never an error; in a pass without witness every
\* cell is Unknown and, given enough rows, assign does not fail; in a pass
\* with known instance every cell is Known; and a completed assign has
\* created the cells of rows 0 .. COUNT-1 in both columns and enabled the
\* selector on rows 1 .. COUNT-1 in either kind of pass.
C10_UnknownPropagation ==
    /\ err # "Synthesis"
    /\ (mode = "keygen" =>
           /\ \A pos \in DOMAIN advice : advice[pos] = Unknown
           /\ (COUNT <= usable_rows /\ 2 <= usable_rows => pc # "failed")
           /\ (COUNT <= usable_rows /\ pc = "failed" => Len(order) = 2 * COUNT))
    /\ (mode = "mock" => \A pos \in DOMAIN advice : advice[pos] # Unknown)
    /\ (AssignDone =>
           /\ DOMAIN advice = AllCells
           /\ selector = 1 .. (COUNT - 1))

\* C10 witness: a pass without witness has completed with all cells Unknown.
C10_Witness ==
    /\ mode = "keygen" /\ pc = "ready" /\ COUNT >= 3
    /\ DOMAIN advice = AllCells
    /\ \A pos \in AllCells : advice[pos] = Unknown

====
